---- MODULE Spec2Model ----
(***************************************************************************)
(* fitscroll: the feed generation pipeline (runPipeline of the Generating  *)
(* screen), the Pinterest bridge client (searchPinterest) and the Gemini   *)
(* client (generateTryOn / generateWithImages), as one state machine.      *)
(*                                                                         *)
(* One pipeline run is a single async function; the actions below are the  *)
(* stretches of it between its awaits.  pc is the position of the run.     *)
(***************************************************************************)
EXTENDS Integers, Sequences, FiniteSets, TLC

(* ---------------------------------------------------------------------- *)
(* Bounds of the model and constants of the program                       *)
(* ---------------------------------------------------------------------- *)

\* longest outfit list the bridge answers with in the model
MaxCandidates == 2

\* config.ts: PINTEREST_FETCH_LIMIT
PINTEREST_FETCH_LIMIT == 10

\* gemini.ts: MAX_RETRIES, RETRY_DELAY_MS
MAX_RETRIES == 2

RETRY_DELAY_MS == 2000

\* config.ts: GEMINI_API_KEY is a non-empty string literal
GEMINI_API_KEY_SET == TRUE

(* ---------------------------------------------------------------------- *)
(* Values: locators, strings                                              *)
(* ---------------------------------------------------------------------- *)

\* JavaScript undefined / null / a string (a URL or a local file URI)
Undefined == [kind |-> "undefined"]

Null == [kind |-> "null"]

Str(s) == [kind |-> "string", name |-> s]

\* the URI of the n-th file written to the generated/ directory; the file
\* name holds Date.now() and a random suffix, so every file has its own URI
GenUri(n) == [kind |-> "file", n |-> n]

\* JavaScript truthiness of a locator: undefined, null and "" are falsy
Truthy(x) == x.kind \in {"string", "file"} /\ (x.kind = "string" => x.name # "")

\* a || b
OrElse(a, b) == IF Truthy(a) THEN a ELSE b

\* Captions and style tags are sequences of characters, so that
\* toLowerCase and includes are computed, not assumed.
UpperToLower ==
  [c \in {"Y", "K", "C", "S"} |->
     CASE c = "Y" -> "y" [] c = "K" -> "k" [] c = "C" -> "c" [] c = "S" -> "s"]

toLowerCase(s) ==
  [i \in 1..Len(s) |-> IF s[i] \in DOMAIN UpperToLower THEN UpperToLower[s[i]] ELSE s[i]]

\* String.prototype.includes
includes(h, n) ==
  \E i \in 0..(Len(h) - Len(n)) : SubSeq(h, i + 1, i + Len(n)) = n

StyleY2K == <<"Y", "2", "K">>

StyleCasual == <<"C", "a", "s", "u", "a", "l">>

StyleStreetwear == <<"S", "t", "r", "e", "e", "t", "w", "e", "a", "r">>

CaptionY2K == <<"c", "o", "o", "l", " ", "y", "2", "k", " ", "f", "i", "t">>

\* "best y2k streetwear look"
CaptionBestY2K ==
  <<"b", "e", "s", "t", " ", "y", "2", "k", " ", "s", "t", "r", "e", "e", "t", "w", "e", "a", "r",
    " ", "l", "o", "o", "k">>

\* "Y2K SKY"
CaptionShout == <<"Y", "2", "K", " ", "S", "K", "Y">>

CaptionPlain == <<"p", "l", "a", "i", "n">>

CaptionBare == <<"b", "a", "r", "e">>

(* ---------------------------------------------------------------------- *)
(* Profiles (storage.ts)                                                  *)
(* ---------------------------------------------------------------------- *)

DEFAULT_PROFILE ==
  [photoUri |-> Null, gender |-> "null", keywords |-> <<>>, brands |-> <<>>,
   styles |-> <<>>, onboarded |-> FALSE]

Selfie == Str("file:selfie.jpg")

\* the profiles profile.json may hold when a run starts
Profiles ==
  { [photoUri |-> Selfie, gender |-> "female",
     keywords |-> <<"Nike Casual outfit female", "Nike Y2K outfit female",
                    "Casual outfit inspiration female", "Y2K outfit inspiration female",
                    "Nike outfit female">>,
     brands |-> <<"Nike">>, styles |-> <<StyleCasual, StyleY2K>>, onboarded |-> TRUE],
    [photoUri |-> Selfie, gender |-> "null", keywords |-> <<>>,
     brands |-> <<>>, styles |-> <<>>, onboarded |-> TRUE],
    [photoUri |-> Null, gender |-> "male", keywords |-> <<"Y2K outfit inspiration male">>,
     brands |-> <<>>, styles |-> <<StyleY2K>>, onboarded |-> TRUE] }

\* readJSON(PROFILE_FILE, DEFAULT_PROFILE): the file's content, or the
\* fallback when the file is missing or unreadable
readJSON(file, fallback) == IF file.exists THEN file.data ELSE fallback

NoFile == [exists |-> FALSE]

FileOf(data) == [exists |-> TRUE, data |-> data]

(* ---------------------------------------------------------------------- *)
(* The bridge (pinterest.ts)                                              *)
(* ---------------------------------------------------------------------- *)

\* the outfit entries the bridge may answer with
OutfitKinds ==
  { [imageUrl |-> Str("bridge/a.jpg"), sourceUrl |-> Str("pinimg/a.jpg"),
     captionHint |-> CaptionY2K, products |-> <<"p1">>],
    [imageUrl |-> Str("bridge/b.jpg"), sourceUrl |-> Str(""),
     captionHint |-> CaptionPlain, products |-> <<>>],
    [imageUrl |-> Undefined, sourceUrl |-> Undefined,
     captionHint |-> CaptionBare, products |-> <<>>] }

RECURSIVE SeqsUpTo(_, _)
SeqsUpTo(S, n) ==
  IF n = 0 THEN {<<>>}
  ELSE LET shorter == SeqsUpTo(S, n - 1)
       IN shorter \cup {Append(s, x) : s \in {t \in shorter : Len(t) = n - 1}, x \in S}

OutfitLists == SeqsUpTo(OutfitKinds, MaxCandidates)

\* what the POST /search may end in: fetch throws (network error or the
\* abort timer), a non-OK status, or a 200 whose JSON has outfits or not
BridgeResponses ==
  {[type |-> "throw"]}
    \cup {[type |-> "http", status |-> s, json |-> [error |-> "none"]] : s \in {200, 500}}
    \cup {[type |-> "http", status |-> 200, json |-> [outfits |-> l]] : l \in OutfitLists}

ResOk(status) == status >= 200 /\ status <= 299

\* mutant: the status of the response is not looked at
searchPinterestIgnoreStatus(res) ==
  IF res.type = "throw" THEN <<>>
  ELSE IF "outfits" \notin DOMAIN res.json THEN <<>>
  ELSE res.json.outfits

\* searchPinterest: [] on a throw or a non-OK status, else json.outfits ?? []
searchPinterest(res) ==
  IF res.type = "throw" THEN <<>>
  ELSE IF ~ResOk(res.status) THEN <<>>
  ELSE IF "outfits" \notin DOMAIN res.json THEN <<>>
  ELSE res.json.outfits

(* ---------------------------------------------------------------------- *)
(* Progress                                                                *)
(* ---------------------------------------------------------------------- *)

RECURSIVE Fact(_)
Fact(n) == IF n <= 1 THEN 1 ELSE n * Fact(n - 1)

\* Progress values are fractions; the model holds them multiplied by
\* 100 * MaxCandidates!, which makes every value the code computes an integer.
Unit == Fact(MaxCandidates)

Percent(p) == p * Unit

\* mutant: the loop spreads the whole remaining range, not 0.8 of it
LoopProgressWholeRange(d, n) == Percent(15) + (d * Percent(85)) \div n

\* 0.15 + (done / pinterestOutfits.length) * 0.8
LoopProgress(d, n) == Percent(15) + (d * Percent(80)) \div n

(* ---------------------------------------------------------------------- *)
(* The Gemini client (gemini.ts): one attempt of generateWithImages       *)
(* ---------------------------------------------------------------------- *)

TextPart == [text |-> "caption"]

ImagePart(d) == [inlineData |-> d]

\* the candidates arrays a 200 response may hold; a part's inlineData.data
\* may be the empty string, which the code treats as no image
CandidateLists ==
  { <<>>,
    << <<TextPart>> >>,
    << <<ImagePart("")>> >>,
    << <<TextPart>>, <<ImagePart("png2")>> >>,
    << <<TextPart, ImagePart("png1")>>, <<ImagePart("png2")>> >> }

\* the statuses the generation service answers with in the model
HttpStatuses == {200, 400, 429, 499, 500, 503}

\* what one POST :generateContent may end in: fetch throws, a non-OK status,
\* a 200 whose body res.json() cannot parse, a 200 with or without candidates
GeminiResponses ==
  {[type |-> "throw"]}
    \cup {[type |-> "http", status |-> s, json |-> [error |-> "status"]] :
            s \in {t \in HttpStatuses : ~ResOk(t)}}
    \cup {[type |-> "http", status |-> 200, json |-> [error |-> "unparseable"]],
          [type |-> "http", status |-> 200, json |-> [promptFeedback |-> "blocked"]]}
    \cup {[type |-> "http", status |-> 200, json |-> [candidates |-> c]] : c \in CandidateLists}

NoResponse == [type |-> "none"]

\* json.candidates ?? []
CandidatesOf(json) == IF "candidates" \in DOMAIN json THEN json.candidates ELSE <<>>

IsImagePart(p) == "inlineData" \in DOMAIN p /\ p.inlineData # ""

\* mutant: only the first candidate is scanned
FlattenFirstCandidate(cands) == IF cands = <<>> THEN <<>> ELSE Head(cands)

\* the parts of all candidates, in the order the two nested loops visit them
RECURSIVE Flatten(_)
Flatten(cands) ==
  IF cands = <<>> THEN <<>> ELSE Head(cands) \o Flatten(Tail(cands))

\* the data of the first part with inlineData.data, or "" when there is none
RECURSIVE FirstImage(_)
FirstImage(parts) ==
  IF parts = <<>> THEN ""
  ELSE IF IsImagePart(Head(parts)) THEN Head(parts).inlineData
  ELSE FirstImage(Tail(parts))

\* mutant: rate limiting is not retried
RetryableServerOnly(status) == status >= 500

\* mutant: every non-OK status is retried
RetryableAny(status) == TRUE

\* status === 429 || status >= 500
Retryable(status) == status = 429 \/ status >= 500

\* mutant: an exception ends the call at once
OnThrowGiveUp(attempt) == [kind |-> "return", data |-> ""]

\* the catch block of the attempt: retry while attempts remain, else null
OnThrow(attempt) ==
  IF attempt < MAX_RETRIES THEN [kind |-> "continue"] ELSE [kind |-> "return", data |-> ""]

\* One iteration of the retry loop, given the response of its request and
\* whether writing the decoded image file succeeds: continue with the next
\* attempt, return null (data ""), or return the file written (its data).
AttemptOutcome(res, writeOk, attempt) ==
  IF res.type = "throw" THEN OnThrow(attempt)
  ELSE IF ~ResOk(res.status) THEN
    IF Retryable(res.status) /\ attempt < MAX_RETRIES
    THEN [kind |-> "continue"]
    ELSE [kind |-> "return", data |-> ""]
  ELSE IF "error" \in DOMAIN res.json THEN OnThrow(attempt)
  ELSE IF Len(CandidatesOf(res.json)) = 0 THEN [kind |-> "return", data |-> ""]
  ELSE LET img == FirstImage(Flatten(CandidatesOf(res.json)))
       IN IF img = "" THEN [kind |-> "return", data |-> ""]
          ELSE IF writeOk THEN [kind |-> "return", data |-> img]
          ELSE OnThrow(attempt)

(* ---------------------------------------------------------------------- *)
(* State                                                                   *)
(* ---------------------------------------------------------------------- *)

VARIABLES
  profileFile,     \* profile.json
  feedFile,        \* feed.json
  genFiles,        \* number of files written to the generated/ directory
  route,           \* the screen the router shows
  pc,              \* position of runPipeline
  profile,         \* the profile runPipeline loaded
  error,           \* Generating.error (setError)
  progress,        \* Generating.progress (setProgress)
  progressLog,     \* every value passed to setProgress, in order
  completed,       \* Generating.completed
  total,           \* Generating.total
  previewUri,      \* Generating.previewUri
  outfits,         \* pinterestOutfits
  posts,           \* posts
  done,            \* done
  aiSuccessCount,  \* aiSuccessCount
  tryOn,           \* the latest generateTryOn call: its arguments, the images
                   \* it loaded, whether it called generateWithImages, its result
  attempt,         \* generateWithImages: attempt
  genRequests,     \* requests the generateWithImages call in progress has sent
  genDelays,       \* the delays that call has awaited, in ms
  lastRes,         \* the response to its latest request
  genWritten,      \* the image data its result file holds ("" when null)
  genResult,       \* what the latest generateWithImages call returned
  genWrite,        \* the write of the decoded image its latest response led to
  inFlight,        \* requests to the generation service that await their response
  searchArgs,      \* the arguments of the searchPinterest call
  searchCalls,     \* calls of searchPinterest in this run
  tryOnCalls,      \* calls of generateTryOn in this run
  genCalls,        \* calls of generateWithImages in this run
  genNulls,        \* of these, the calls that returned null
  cacheWrites,     \* calls of cacheFeed in this run
  bridgeCall,      \* a searchPinterest call of its own, step by step
  styleCall,       \* a style selection of its own: tags, caption, selected hint
  likesFile,       \* likes.json
  feedScreen,      \* the Feed screen: its React state and what its handlers did last
  wizard,          \* the Onboarding screen: its React state
  indexScreen,     \* the entry screen: its React state and what it read
  defaultProfile   \* the object DEFAULT_PROFILE of storage.ts, as it is now

diskVars == <<profileFile, feedFile, genFiles>>

uiVars == <<error, progress, progressLog, completed, total, previewUri>>

loopVars == <<outfits, posts, done, aiSuccessCount>>

genVars == <<attempt, genRequests, genDelays, lastRes, genWritten, genResult, genWrite, inFlight>>

callVars == <<searchArgs, searchCalls, tryOnCalls, genCalls, genNulls, cacheWrites>>

\* the calls made outside a pipeline run
screenVars == <<likesFile, feedScreen, wizard, indexScreen, defaultProfile>>

aloneVars == <<bridgeCall, styleCall, screenVars>>

vars == <<diskVars, route, pc, profile, uiVars, loopVars, tryOn, genVars, callVars, aloneVars>>

\* the three messages runPipeline passes to setError
MsgNoPhoto == "No photo found. Please go back and upload one."

MsgNoOutfits == "No outfits found."

MsgPipelineError == "Something went wrong while generating your feed. Please try again."

NoError == "null"

DefaultKeywords == <<"fashion outfit inspiration">>

\* Math.random(), in thousandths: the two ends of [0, 1)
RandomDraws == {0, 999}

\* Math.floor(Math.random() * 500) + 50
LikeSeed(r) == (r * 500) \div 1000 + 50

\* Math.floor(Math.random() * 30)
CommentSeed(r) == (r * 30) \div 1000

\* readLocalImageAsBase64 / fetchImageAsBase64: the image read, or null
Image(uri) == [kind |-> "image", from |-> uri]

\* generateWithImages has not come to write a file
NoWrite == [attempted |-> FALSE]

\* no searchPinterest call of its own has been made
BridgeIdle ==
  [pc |-> "idle", fresh |-> FALSE, limit |-> 0, clock |-> 0, timeoutMs |-> 0,
   timerArmed |-> FALSE, requests |-> 0, status |-> 0, by |-> "none", result |-> <<>>]

\* no style selection of its own has been made
StyleIdle == [pc |-> "idle", styles |-> <<>>, caption |-> <<>>, hint |-> <<>>]

\* readJSON(PROFILE_FILE, DEFAULT_PROFILE): the fallback is the object
\* itself, not a copy of it
getProfile(file) == readJSON(file, defaultProfile)

\* the Feed screen before it is mounted
FeedUnmounted ==
  [mounted |-> FALSE, loading |-> TRUE, posts |-> <<>>, likes |-> {}, activeIndex |-> 0,
   lastLike |-> [made |-> FALSE], lastTryOn |-> [made |-> FALSE], tryOns |-> 0,
   redirectedFrom |-> "none"]

\* the Onboarding screen as mounted: nothing chosen, step 0
WizardFresh ==
  [gender |-> "null", photoUri |-> Null, brands |-> <<>>, selectedStyles |-> <<>>, step |-> 0,
   lastFinish |-> [made |-> FALSE]]

\* the entry screen as mounted: checking = true
IndexChecking == [checking |-> TRUE]

\* no screen but the one a specification is about is in use
ScreensIdle ==
  /\ likesFile = NoFile
  /\ feedScreen = FeedUnmounted
  /\ wizard = WizardFresh
  /\ indexScreen = IndexChecking
  /\ defaultProfile = DEFAULT_PROFILE

\* the state of the Generating screen as mounted, before runPipeline has run
RunState ==
  /\ profile = DEFAULT_PROFILE
  /\ error = NoError
  /\ progress = 0
  /\ progressLog = <<>>
  /\ completed = 0
  /\ total = PINTEREST_FETCH_LIMIT
  /\ previewUri = Null
  /\ outfits = <<>>
  /\ posts = <<>>
  /\ done = 0
  /\ aiSuccessCount = 0
  /\ tryOn = [active |-> FALSE]
  /\ attempt = 0
  /\ genRequests = 0
  /\ genDelays = <<>>
  /\ lastRes = NoResponse
  /\ genWritten = ""
  /\ genResult = Null
  /\ genWrite = NoWrite
  /\ inFlight = 0
  /\ searchArgs = [called |-> FALSE]
  /\ searchCalls = 0
  /\ tryOnCalls = 0
  /\ genCalls = 0
  /\ genNulls = 0
  /\ cacheWrites = 0

\* that state, with no feed cached and no image generated yet
RunInit ==
  /\ feedFile = NoFile
  /\ genFiles = 0
  /\ route = "/generating"
  /\ RunState

Init ==
  /\ profileFile \in {NoFile} \cup {FileOf(p) : p \in Profiles}
  /\ pc = "start"
  /\ RunInit
  /\ bridgeCall = BridgeIdle
  /\ styleCall = StyleIdle
  /\ ScreensIdle

(* ---------------------------------------------------------------------- *)
(* runPipeline (Generating screen)                                          *)
(* ---------------------------------------------------------------------- *)

\* setProgress(p)
SetProgress(p) ==
  /\ progress' = p
  /\ progressLog' = Append(progressLog, p)

\* mutant: the photo check is skipped
NoPhotoNever(p) == FALSE

\* mutant: the empty-list check is skipped
NoOutfitsNever(found) == FALSE

\* if (!userPhotoUri)
NoPhoto(p) == ~Truthy(p.photoUri)

\* if (pinterestOutfits.length === 0)
NoOutfits(found) == Len(found) = 0

\* mutant: the profile's keywords are passed as they are
KeywordsOfProfileOnly(p) == p.keywords

\* profile.keywords.length > 0 ? profile.keywords : ['fashion outfit inspiration']
KeywordsOf(p) == IF Len(p.keywords) > 0 THEN p.keywords ELSE DefaultKeywords

\* getProfile, the photo check, and the call of searchPinterest up to its fetch
RunPipelineStart ==
  /\ pc = "start"
  /\ LET p == getProfile(profileFile)
     IN /\ profile' = p
        /\ IF NoPhoto(p)
           THEN /\ error' = MsgNoPhoto
                /\ pc' = "failed"
                /\ UNCHANGED <<progress, progressLog, searchArgs, searchCalls>>
           ELSE /\ SetProgress(Percent(5))
                /\ searchArgs' =
                     [called |-> TRUE,
                      keywords |-> KeywordsOf(p),
                      limit |-> PINTEREST_FETCH_LIMIT,
                      fresh |-> TRUE]
                /\ searchCalls' = searchCalls + 1
                /\ pc' = "search"
                /\ UNCHANGED error
  /\ UNCHANGED <<diskVars, route, completed, total, previewUri, loopVars, tryOn, genVars,
                 tryOnCalls, genCalls, genNulls, cacheWrites, aloneVars>>

\* the bridge answers (or the request fails); the empty-list check
SearchReturns ==
  /\ pc = "search"
  /\ \E res \in BridgeResponses :
       LET found == searchPinterest(res)
       IN /\ outfits' = found
          /\ IF NoOutfits(found)
             THEN /\ error' = MsgNoOutfits
                  /\ pc' = "failed"
                  /\ UNCHANGED <<progress, progressLog, total>>
             ELSE /\ total' = Len(found)
                  /\ SetProgress(Percent(15))
                  /\ pc' = "compose"
                  /\ UNCHANGED error
  /\ UNCHANGED <<diskVars, route, profile, completed, previewUri, posts, done,
                 aiSuccessCount, tryOn, genVars, callVars, aloneVars>>

\* mutant: the bridge-served locator is preferred
PrimaryOrSource(outfit) == OrElse(outfit.imageUrl, outfit.sourceUrl)

\* outfit.sourceUrl || outfit.imageUrl
SourceOrPrimary(outfit) == OrElse(outfit.sourceUrl, outfit.imageUrl)

\* mutant: the last tag that matches is taken
FindStyleLastMatch(styles, caption) ==
  LET M == {i \in 1..Len(styles) :
              includes(toLowerCase(caption), toLowerCase(styles[i]))}
  IN IF M = {} THEN <<>> ELSE <<styles[CHOOSE i \in M : \A j \in M : j <= i]>>

\* mutant: the primary style is passed whatever the caption
OutfitStylePrimaryOnly(styles, caption) == IF Len(styles) > 0 THEN <<styles[1]>> ELSE <<>>

\* profile.styles.find(s => caption.toLowerCase().includes(s.toLowerCase()))
RECURSIVE FindStyle(_, _)
FindStyle(styles, caption) ==
  IF styles = <<>> THEN <<>>
  ELSE IF includes(toLowerCase(caption), toLowerCase(Head(styles))) THEN <<Head(styles)>>
  ELSE FindStyle(Tail(styles), caption)

\* ... ?? primaryStyle, with primaryStyle = styles[0] or null; <<>> is null
OutfitStyle(styles, caption) ==
  LET found == FindStyle(styles, caption)
  IN IF found # <<>> THEN found
     ELSE IF Len(styles) > 0 THEN <<styles[1]>> ELSE <<>>

\* the post pushed for the outfit being processed
NewPost(prefix, suffixed, images, outfit, r1, r2) ==
  [id |-> [prefix |-> prefix, done |-> done, suffix |-> suffixed],
   images |-> images,
   captionHint |-> outfit.captionHint,
   products |-> outfit.products,
   liked |-> FALSE,
   likeCount |-> LikeSeed(r1),
   commentCount |-> CommentSeed(r2),
   comments |-> <<>>]

\* mutant: the post is put in front of the list
PushPostFront(post) ==
  /\ posts' = <<post>> \o posts
  /\ done' = done + 1
  /\ completed' = done + 1
  /\ SetProgress(LoopProgress(done + 1, Len(outfits)))
  /\ pc' = IF done + 1 < Len(outfits) THEN "compose" ELSE "save"

\* posts.push(post); done++; setCompleted(done); setProgress(...), and the
\* loop's test for a next outfit
PushPost(post) ==
  /\ posts' = Append(posts, post)
  /\ done' = done + 1
  /\ completed' = done + 1
  /\ SetProgress(LoopProgress(done + 1, Len(outfits)))
  /\ pc' = IF done + 1 < Len(outfits) THEN "compose" ELSE "save"

\* mutant: a failed outfit gets a post without images
PushFallbackNoImage(suffixed) ==
  \E r1 \in RandomDraws, r2 \in RandomDraws :
    /\ PushPost(NewPost("pin", suffixed, <<>>, outfits[done + 1], r1, r2))
    /\ UNCHANGED <<aiSuccessCount, previewUri>>

\* the else branch and the catch block: the Pinterest image alone
PushFallback(suffixed) ==
  \E r1 \in RandomDraws, r2 \in RandomDraws :
    /\ PushPost(NewPost("pin", suffixed, <<SourceOrPrimary(outfits[done + 1])>>,
                        outfits[done + 1], r1, r2))
    /\ UNCHANGED <<aiSuccessCount, previewUri>>

\* mutant: original first, generated second
PushGeneratedLast(uri) ==
  \E r1 \in RandomDraws, r2 \in RandomDraws :
    /\ aiSuccessCount' = aiSuccessCount + 1
    /\ previewUri' = uri
    /\ PushPost(NewPost("gen", TRUE, <<SourceOrPrimary(outfits[done + 1]), uri>>,
                        outfits[done + 1], r1, r2))

\* the if branch: generated first, original second
PushGenerated(uri) ==
  \E r1 \in RandomDraws, r2 \in RandomDraws :
    /\ aiSuccessCount' = aiSuccessCount + 1
    /\ previewUri' = uri
    /\ PushPost(NewPost("gen", TRUE, <<uri, SourceOrPrimary(outfits[done + 1])>>,
                        outfits[done + 1], r1, r2))

\* The head of the loop body up to the first await of generateTryOn.
\* imageUrlForGemini.slice throws when neither locator is a string, and the
\* catch block pushes the fallback post.
BeginOutfit ==
  /\ pc = "compose"
  /\ done < Len(outfits)
  /\ LET outfit == outfits[done + 1]
         imageUrlForGemini == SourceOrPrimary(outfit)
         outfitStyle == OutfitStyle(profile.styles, outfit.captionHint)
     IN IF imageUrlForGemini.kind # "string"
        THEN /\ PushFallback(FALSE)
             /\ UNCHANGED <<tryOn, tryOnCalls>>
        ELSE /\ tryOn' = [active |-> TRUE,
                          userPhotoUri |-> profile.photoUri,
                          outfitImageUrl |-> imageUrlForGemini,
                          outfitDescription |-> outfit.captionHint,
                          gender |-> profile.gender,
                          style |-> outfitStyle,
                          userImg |-> Undefined,
                          outfitImg |-> Undefined,
                          generate |-> FALSE,
                          result |-> Undefined]
             /\ tryOnCalls' = tryOnCalls + 1
             /\ pc' = "readPhoto"
             /\ UNCHANGED <<uiVars, posts, done, aiSuccessCount>>
  /\ UNCHANGED <<diskVars, route, profile, error, total, outfits, genVars,
                 searchArgs, searchCalls, genCalls, genNulls, cacheWrites, aloneVars>>

\* mutant: a null image is not noticed
LoadFailedNever(img) == FALSE

\* if (!userImg) / if (!outfitImg)
LoadFailed(img) == img = Null

\* return of generateTryOn to runPipeline
Returned(call, result) == [call EXCEPT !.active = FALSE, !.result = result]

\* generateTryOn step 1: readLocalImageAsBase64 gives the image or null
ReadLocalImage ==
  /\ pc = "readPhoto"
  /\ \E userImg \in {Null, Image(tryOn.userPhotoUri)} :
       IF LoadFailed(userImg)
       THEN /\ PushFallback(TRUE)
            /\ tryOn' = Returned([tryOn EXCEPT !.userImg = userImg], Null)
       ELSE /\ pc' = "fetchOutfit"
            /\ tryOn' = [tryOn EXCEPT !.userImg = userImg]
            /\ UNCHANGED <<uiVars, posts, done, aiSuccessCount>>
  /\ UNCHANGED <<diskVars, route, profile, error, total, outfits, genVars, callVars, aloneVars>>

\* generateTryOn step 2: fetchImageAsBase64 gives the image or null; with
\* both images generateWithImages starts (the API key check, then attempt 0)
FetchOutfitImage ==
  /\ pc = "fetchOutfit"
  /\ \E outfitImg \in {Null, Image(tryOn.outfitImageUrl)} :
       IF LoadFailed(outfitImg)
       THEN /\ PushFallback(TRUE)
            /\ tryOn' = Returned([tryOn EXCEPT !.outfitImg = outfitImg], Null)
            /\ UNCHANGED <<genVars, genCalls, genNulls>>
       ELSE /\ genCalls' = genCalls + 1
            /\ attempt' = 0
            /\ genRequests' = 0
            /\ genDelays' = <<>>
            /\ lastRes' = NoResponse
            /\ genWritten' = ""
            /\ genResult' = Null
            /\ genWrite' = NoWrite
            /\ UNCHANGED inFlight
            /\ IF GEMINI_API_KEY_SET
               THEN /\ pc' = "generate"
                    /\ tryOn' = [tryOn EXCEPT !.outfitImg = outfitImg, !.generate = TRUE]
                    /\ UNCHANGED <<uiVars, posts, done, aiSuccessCount, genNulls>>
               ELSE /\ PushFallback(TRUE)
                    /\ genNulls' = genNulls + 1
                    /\ tryOn' = Returned([tryOn EXCEPT !.outfitImg = outfitImg,
                                                       !.generate = TRUE], Null)
  /\ UNCHANGED <<diskVars, route, profile, error, total, outfits,
                 searchArgs, searchCalls, tryOnCalls, cacheWrites, aloneVars>>

\* mutant: the same delay before every retry
RetryDelayFlat(k) == RETRY_DELAY_MS

\* delay(RETRY_DELAY_MS * attempt)
RetryDelay(k) == RETRY_DELAY_MS * k

\* The head of one iteration of the retry loop of generateWithImages: the
\* delay before a retry, then fetch sends the request.
GenSend ==
  /\ pc = "generate"
  /\ genRequests' = genRequests + 1
  /\ genDelays' = IF attempt > 0
                  THEN Append(genDelays, RetryDelay(attempt))
                  ELSE genDelays
  /\ lastRes' = NoResponse
  /\ genWrite' = NoWrite
  /\ inFlight' = inFlight + 1
  /\ pc' = "awaitGemini"
  /\ UNCHANGED <<diskVars, route, profile, uiVars, loopVars, tryOn, attempt, genWritten,
                 genResult, callVars, aloneVars>>

\* mutant: the loop goes on while the request is still out
AwaitedNot(n) == n

\* await fetch(...): the code goes on when the request has settled
Awaited(n) == n - 1

\* the write of the decoded file that a response leads to, if any
WriteOf(res, writeOk) ==
  IF res.type = "http" /\ ResOk(res.status) /\ "error" \notin DOMAIN res.json
     /\ FirstImage(Flatten(CandidatesOf(res.json))) # ""
  THEN [attempted |-> TRUE, data |-> FirstImage(Flatten(CandidatesOf(res.json))),
        ok |-> writeOk]
  ELSE NoWrite

\* The rest of the iteration: the request settles, and what the response
\* leads to; a continue that the loop test (attempt <= MAX_RETRIES) ends
\* falls to the final return null.  A return ends generateTryOn too, and
\* runPipeline pushes the post.
GenAttempt ==
  /\ pc = "awaitGemini"
  /\ \E res \in GeminiResponses, writeOk \in BOOLEAN :
       LET out == AttemptOutcome(res, writeOk, attempt)
       IN /\ inFlight' = Awaited(inFlight)
          /\ lastRes' = res
          /\ genWrite' = WriteOf(res, writeOk)
          /\ IF out.kind = "continue" /\ attempt + 1 <= MAX_RETRIES
             THEN /\ attempt' = attempt + 1
                  /\ pc' = "generate"
                  /\ UNCHANGED <<uiVars, posts, done, aiSuccessCount, tryOn,
                                 genWritten, genResult, genFiles, genNulls>>
             ELSE IF out.kind = "continue" \/ out.data = ""
             THEN /\ PushFallback(TRUE)
                  /\ genNulls' = genNulls + 1
                  /\ tryOn' = Returned(tryOn, Null)
                  /\ UNCHANGED <<attempt, genWritten, genResult, genFiles>>
             ELSE /\ genFiles' = genFiles + 1
                  /\ genWritten' = out.data
                  /\ genResult' = GenUri(genFiles + 1)
                  /\ PushGenerated(GenUri(genFiles + 1))
                  /\ tryOn' = Returned(tryOn, GenUri(genFiles + 1))
                  /\ UNCHANGED <<attempt, genNulls>>
  /\ UNCHANGED <<profileFile, feedFile, route, profile, error, total, outfits,
                 genRequests, genDelays, searchArgs, searchCalls, tryOnCalls, genCalls,
                 cacheWrites, aloneVars>>

\* mutant: only the first post is cached
cacheFeedFirstOnly(written) ==
  IF written
  THEN /\ feedFile' = FileOf(<<posts[1]>>)
       /\ pc' = "done"
       /\ UNCHANGED error
  ELSE /\ error' = MsgPipelineError
       /\ pc' = "failed"
       /\ UNCHANGED feedFile

\* writeJSON(FEED_FILE, posts): ensureDir and file.write, either of which may throw
cacheFeed(written) ==
  IF written
  THEN /\ feedFile' = FileOf(posts)
       /\ pc' = "done"
       /\ UNCHANGED error
  ELSE /\ error' = MsgPipelineError
       /\ pc' = "failed"
       /\ UNCHANGED feedFile

\* Step 3 of runPipeline: setProgress(1) and cacheFeed(posts); a throw of
\* the write lands in the catch of the whole function
SaveFeed ==
  /\ pc = "save"
  /\ SetProgress(Percent(100))
  /\ IF Len(posts) > 0
     THEN /\ cacheWrites' = cacheWrites + 1
          /\ \E written \in BOOLEAN : cacheFeed(written)
     ELSE /\ pc' = "done"
          /\ UNCHANGED <<cacheWrites, feedFile, error>>
  /\ UNCHANGED <<profileFile, genFiles, route, profile, completed, total, previewUri,
                 loopVars, tryOn, genVars, searchArgs, searchCalls, tryOnCalls,
                 genCalls, genNulls, aloneVars>>

\* the 800 ms timer: router.replace('/feed')
Navigate ==
  /\ pc = "done"
  /\ route = "/generating"
  /\ route' = "/feed"
  /\ UNCHANGED <<diskVars, pc, profile, uiVars, loopVars, tryOn, genVars, callVars, aloneVars>>

Next ==
  \/ RunPipelineStart
  \/ SearchReturns
  \/ BeginOutfit
  \/ ReadLocalImage
  \/ FetchOutfitImage
  \/ GenSend
  \/ GenAttempt
  \/ SaveFeed
  \/ Navigate

Spec == Init /\ [][Next]_vars

\* What the scheduling guarantees: code that can run does run, a local
\* file read ends, the timer of searchPinterest ends its fetch, the delay
\* before a retry ends.  The two fetches without a timer, the download of
\* the reference image and the request to the generation service, end only
\* if the other side answers: no fairness for them.
FairSpec ==
  /\ Spec
  /\ WF_vars(RunPipelineStart)
  /\ WF_vars(SearchReturns)
  /\ WF_vars(BeginOutfit)
  /\ WF_vars(ReadLocalImage)
  /\ WF_vars(GenSend)
  /\ WF_vars(SaveFeed)
  /\ WF_vars(Navigate)

(* ---------------------------------------------------------------------- *)
(* searchPinterest (pinterest.ts), step by step, called on its own         *)
(* ---------------------------------------------------------------------- *)

\* how many entries more than the limit asked for the bridge may answer with
MaxOverrun == 1

pipelineVars == <<diskVars, route, pc, profile, uiVars, loopVars, tryOn, genVars, callVars>>

\* no pipeline run: the client is called on its own
SearchInit ==
  /\ profileFile = NoFile
  /\ pc = "idle"
  /\ RunInit
  /\ bridgeCall = BridgeIdle
  /\ styleCall = StyleIdle
  /\ ScreensIdle

Seconds(n) == n * 1000

\* time passes in steps of ten seconds
TickMs == Seconds(10)

\* mutant: the long timeout for the cached manifest, the short one for a scrape
timeoutMsSwapped(fresh) == IF fresh THEN 30000 ELSE 120000

\* const timeoutMs = fresh ? 120_000 : 30_000
timeoutMs(fresh) == IF fresh THEN 120000 ELSE 30000

\* an entry of the bridge's manifest
ManifestOutfit ==
  [imageUrl |-> Str("bridge/a.jpg"), sourceUrl |-> Str("pinimg/a.jpg"),
   captionHint |-> CaptionY2K, products |-> <<"p1">>]

Repeat(x, n) == [i \in 1..n |-> x]

\* the statuses the bridge answers with
BridgeStatuses == {200, 404, 500}

\* the bodies the bridge answers with: JSON without outfits, a body that
\* res.json() cannot parse, and outfit lists of any length up to past the limit
BridgeBodies ==
  {[error |-> "none"], [error |-> "unparseable"]}
    \cup {[outfits |-> Repeat(ManifestOutfit, n)] : n \in 0..(PINTEREST_FETCH_LIMIT + MaxOverrun)}

\* the call up to its await of fetch: the timer is set, the request sent
SearchCall ==
  /\ bridgeCall.pc = "idle"
  /\ \E fresh \in BOOLEAN :
       bridgeCall' = [pc |-> "fetching", fresh |-> fresh, limit |-> PINTEREST_FETCH_LIMIT,
                      clock |-> 0, timeoutMs |-> timeoutMs(fresh), timerArmed |-> TRUE,
                      requests |-> bridgeCall.requests + 1, status |-> 0, by |-> "none",
                      result |-> <<>>]
  /\ UNCHANGED <<pipelineVars, styleCall, screenVars>>

\* time passes while the request is out; the timer fires when it is due
SearchTick ==
  /\ bridgeCall.pc = "fetching"
  /\ bridgeCall.clock < bridgeCall.timeoutMs
  /\ bridgeCall' = [bridgeCall EXCEPT !.clock = @ + TickMs]
  /\ UNCHANGED <<pipelineVars, styleCall, screenVars>>

\* the timer: controller.abort() rejects the fetch, the catch returns []
SearchAbort ==
  /\ bridgeCall.pc = "fetching"
  /\ bridgeCall.timerArmed
  /\ bridgeCall.clock >= bridgeCall.timeoutMs
  /\ bridgeCall' = [bridgeCall EXCEPT !.pc = "returned", !.timerArmed = FALSE, !.by = "abort",
                                      !.result = searchPinterest([type |-> "throw"])]
  /\ UNCHANGED <<pipelineVars, styleCall, screenVars>>

\* fetch rejects by itself (no route to the bridge): the catch returns []
SearchFetchFails ==
  /\ bridgeCall.pc = "fetching"
  /\ bridgeCall' = [bridgeCall EXCEPT !.pc = "returned", !.by = "network",
                                      !.result = searchPinterest([type |-> "throw"])]
  /\ UNCHANGED <<pipelineVars, styleCall, screenVars>>

\* the bridge answers: fetch resolves and clearTimeout(timer) runs
SearchHeaders ==
  /\ bridgeCall.pc = "fetching"
  /\ \E status \in BridgeStatuses :
       bridgeCall' = [bridgeCall EXCEPT !.pc = "body", !.timerArmed = FALSE, !.status = status]
  /\ UNCHANGED <<pipelineVars, styleCall, screenVars>>

\* the body is read (res.text() or res.json()) and the call returns
SearchBody ==
  /\ bridgeCall.pc = "body"
  /\ \E json \in BridgeBodies :
       bridgeCall' =
         [bridgeCall EXCEPT
            !.pc = "returned",
            !.by = IF ResOk(bridgeCall.status) THEN "body" ELSE "status",
            !.result = searchPinterest([type |-> "http", status |-> bridgeCall.status,
                                        json |-> json])]
  /\ UNCHANGED <<pipelineVars, styleCall, screenVars>>

SearchNext ==
  \/ SearchCall
  \/ SearchTick
  \/ SearchAbort
  \/ SearchFetchFails
  \/ SearchHeaders
  \/ SearchBody

SearchSpec == SearchInit /\ [][SearchNext]_vars

\* the event loop runs a timer that is due, and time does not stop; nothing
\* makes the bridge answer or its body arrive
SearchFairSpec == SearchSpec /\ WF_vars(SearchTick) /\ WF_vars(SearchAbort)

(* ---------------------------------------------------------------------- *)
(* The style selection of the loop body, applied on its own                *)
(* ---------------------------------------------------------------------- *)

\* most style tags a profile holds in the model
MaxStyles == 2

\* three of STYLE_OPTIONS
StyleTags == {StyleStreetwear, StyleY2K, StyleCasual}

\* toggleStyle keeps the tags of a profile distinct, in the order chosen
StyleLists ==
  {l \in SeqsUpTo(StyleTags, MaxStyles) : \A i, j \in 1..Len(l) : i # j => l[i] # l[j]}

Captions == {CaptionBestY2K, CaptionY2K, CaptionShout, CaptionPlain, CaptionBare, <<>>}

\* a profile's style tags and an outfit's caption, before the selection
StyleInit ==
  /\ profileFile = NoFile
  /\ pc = "idle"
  /\ RunInit
  /\ bridgeCall = BridgeIdle
  /\ \E styles \in StyleLists, caption \in Captions :
       styleCall = [pc |-> "ready", styles |-> styles, caption |-> caption, hint |-> <<>>]
  /\ ScreensIdle

\* primaryStyle and outfitStyle, the style argument of generateTryOn
SelectStyle ==
  /\ styleCall.pc = "ready"
  /\ styleCall' = [styleCall EXCEPT !.pc = "selected",
                                    !.hint = OutfitStyle(styleCall.styles, styleCall.caption)]
  /\ UNCHANGED <<pipelineVars, bridgeCall, screenVars>>

StyleNext == SelectStyle

StyleSpec == StyleInit /\ [][StyleNext]_vars

(* ---------------------------------------------------------------------- *)
(* The Feed screen (Feed of feed.tsx) and the likes of storage.ts           *)
(* ---------------------------------------------------------------------- *)

\* posts of a cached feed
MaxFeed == 2

\* on-demand try-ons that succeed
MaxTryOns == 2

runVars == <<profile, uiVars, loopVars, tryOn, genVars, callVars>>

\* the Pinterest image of the i-th post of a cached feed
SourceImage(i) == IF i = 0 THEN Str("pinimg/a.jpg") ELSE Str("bridge/b.jpg")

\* a post as runPipeline pushes it: kind "gen" with the generated image
\* first and the Pinterest image second, kind "pin" with the Pinterest
\* image alone; g is the number of the generated file
CachedPost(i, kind, g) ==
  [id |-> [prefix |-> kind, done |-> i, suffix |-> TRUE],
   images |-> IF kind = "gen" THEN <<GenUri(g), SourceImage(i)>> ELSE <<SourceImage(i)>>,
   captionHint |-> IF i = 0 THEN CaptionY2K ELSE CaptionPlain,
   products |-> IF i = 0 THEN <<"p1">> ELSE <<>>,
   liked |-> FALSE,
   likeCount |-> LikeSeed(IF i = 0 THEN 0 ELSE 999),
   commentCount |-> CommentSeed(0),
   comments |-> <<>>]

\* the number of generated posts among the first n of kinds
RECURSIVE Generated(_, _)
Generated(kinds, n) ==
  IF n = 0 THEN 0 ELSE Generated(kinds, n - 1) + (IF kinds[n] = "gen" THEN 1 ELSE 0)

\* the feeds a finished run leaves in feed.json
CachedFeeds ==
  { [i \in 1..Len(kinds) |-> CachedPost(i - 1, kinds[i], Generated(kinds, i))] :
      kinds \in SeqsUpTo({"gen", "pin"}, MaxFeed) \ {<<>>} }

\* the generated files a cached feed refers to
GeneratedIn(feed) == Cardinality({i \in 1..Len(feed) : Len(feed[i].images) = 2})

\* readJSON(FEED_FILE, [])
getCachedFeed(file) == readJSON(file, <<>>)

\* readJSON(LIKES_FILE, {}): the object is held as the set of the ids whose
\* entry is true; a missing entry and a false one read alike
getLikes(file) == readJSON(file, {})

\* likes[postId] = !likes[postId]
Toggled(likes, id) == IF id \in likes THEN likes \ {id} ELSE likes \cup {id}

\* the Feed screen is mounted on a profile with a photo, a cached feed of a
\* finished run and no like yet
FeedInit ==
  /\ profileFile \in {FileOf(p) : p \in {q \in Profiles : Truthy(q.photoUri)}}
  /\ \E feed \in CachedFeeds :
       /\ feedFile = FileOf(feed)
       /\ genFiles = GeneratedIn(feed)
  /\ route = "/feed"
  /\ pc = "idle"
  /\ RunState
  /\ bridgeCall = BridgeIdle
  /\ styleCall = StyleIdle
  /\ ScreensIdle

\* loadFeed, run by the effect of the mount: likes and cached feed are read;
\* an empty cache replaces the route by /generating, whose screen mounts
LoadFeed ==
  /\ route = "/feed"
  /\ ~feedScreen.mounted
  /\ LET cached == getCachedFeed(feedFile)
     IN IF Len(cached) > 0
        THEN /\ feedScreen' = [feedScreen EXCEPT !.mounted = TRUE, !.loading = FALSE,
                                                 !.likes = getLikes(likesFile),
                                                 !.posts = cached]
             /\ UNCHANGED <<route, pc>>
        ELSE /\ feedScreen' = [feedScreen EXCEPT !.redirectedFrom = pc]
             /\ route' = "/generating"
             /\ pc' = IF pc = "idle" THEN "start" ELSE pc
  /\ UNCHANGED <<diskVars, runVars, bridgeCall, styleCall, likesFile, wizard, indexScreen, defaultProfile>>

\* onViewableItemsChanged: the item that fills the viewport becomes active
FeedScroll ==
  /\ route = "/feed"
  /\ feedScreen.mounted
  /\ \E i \in 0..(Len(feedScreen.posts) - 1) :
       /\ i # feedScreen.activeIndex
       /\ feedScreen' = [feedScreen EXCEPT !.activeIndex = i]
  /\ UNCHANGED <<pipelineVars, bridgeCall, styleCall, likesFile, wizard, indexScreen, defaultProfile>>

\* currentPost of the render the handlers were made in: posts[activeIndex],
\* whatever the index of the item whose button is pressed
currentPost == feedScreen.posts[feedScreen.activeIndex + 1]

\* p.likeCount + (isLiked ? 1 : -1)
LikeCount(p, isLiked) == p.likeCount + (IF isLiked THEN 1 ELSE -1)

\* onLike of the item at index i: setActiveIndex(index); handleLike().
\* handleLike is the one of the current render, toggleLike writes likes.json
\* (a throw of the write rejects handleLike before its two state updates)
PressLike ==
  /\ route = "/feed"
  /\ feedScreen.mounted
  /\ \E i \in 0..(Len(feedScreen.posts) - 1), written \in BOOLEAN :
       LET id == currentPost.id
           likes == Toggled(getLikes(likesFile), id)
           isLiked == id \in likes
           mapped == [k \in 1..Len(feedScreen.posts) |->
                        IF feedScreen.posts[k].id = id
                        THEN [feedScreen.posts[k] EXCEPT
                                !.likeCount = LikeCount(feedScreen.posts[k], isLiked)]
                        ELSE feedScreen.posts[k]]
       IN IF written
          THEN /\ likesFile' = FileOf(likes)
               /\ feedScreen' =
                    [feedScreen EXCEPT
                       !.activeIndex = i,
                       !.likes = IF isLiked THEN @ \cup {id} ELSE @ \ {id},
                       !.posts = mapped,
                       !.lastLike = [made |-> TRUE, pressed |-> i, toggled |-> id,
                                     isLiked |-> isLiked,
                                     counted |-> {k \in 1..Len(mapped) :
                                                    mapped[k] # feedScreen.posts[k]}]]
          ELSE /\ feedScreen' = [feedScreen EXCEPT !.activeIndex = i]
               /\ UNCHANGED likesFile
  /\ UNCHANGED <<pipelineVars, bridgeCall, styleCall, wizard, indexScreen, defaultProfile>>

\* currentPost.images[currentPost.images.length > 1 ? 1 : 0]
OutfitRef(images) == images[IF Len(images) > 1 THEN 2 ELSE 1]

\* handleTryOn on the active post: generateTryOn(profile.photoUri, outfitRef,
\* ...) answers a generated file or null; the file is put in front of the
\* post's images
PressTryOn ==
  /\ route = "/feed"
  /\ feedScreen.mounted
  /\ GEMINI_API_KEY_SET
  /\ Truthy(getProfile(profileFile).photoUri)
  /\ feedScreen.tryOns < MaxTryOns
  /\ LET post == currentPost
         ref == OutfitRef(post.images)
         made == [made |-> TRUE, post |-> feedScreen.activeIndex, ref |-> ref,
                  userImg |-> getProfile(profileFile).photoUri,
                  before |-> Len(post.images)]
     IN \E generated \in BOOLEAN :
          IF generated
          THEN /\ genFiles' = genFiles + 1
               /\ feedScreen' =
                    [feedScreen EXCEPT
                       !.posts = [k \in 1..Len(feedScreen.posts) |->
                                    IF feedScreen.posts[k].id = post.id
                                    THEN [feedScreen.posts[k] EXCEPT
                                            !.images = <<GenUri(genFiles + 1)>> \o
                                                       feedScreen.posts[k].images]
                                    ELSE feedScreen.posts[k]],
                       !.tryOns = @ + 1,
                       !.lastTryOn = made]
          ELSE /\ feedScreen' = [feedScreen EXCEPT !.lastTryOn = made]
               /\ UNCHANGED genFiles
  /\ UNCHANGED <<profileFile, feedFile, route, pc, runVars, bridgeCall, styleCall,
                 likesFile, wizard, indexScreen, defaultProfile>>

\* the app is closed and opened again on the feed: the screen mounts anew
FeedReload ==
  /\ route = "/feed"
  /\ feedScreen.mounted
  /\ feedScreen' = [FeedUnmounted EXCEPT !.tryOns = feedScreen.tryOns]
  /\ UNCHANGED <<pipelineVars, bridgeCall, styleCall, likesFile, wizard, indexScreen, defaultProfile>>

FeedNext ==
  \/ LoadFeed
  \/ FeedScroll
  \/ PressLike
  \/ PressTryOn
  \/ FeedReload

FeedSpec == FeedInit /\ [][FeedNext]_vars

(* ---------------------------------------------------------------------- *)
(* The Onboarding screen (Onboarding of feed.tsx)                           *)
(* ---------------------------------------------------------------------- *)

\* characters of the brands field
MaxBrandChars == 2

\* what the user may type into the brands field: a letter, commas, spaces
BrandTexts == SeqsUpTo({"N", ",", " "}, MaxBrandChars)

\* two of GENDER_OPTIONS
GenderValues == {"female", "non-binary"}

\* two of STYLE_OPTIONS
StyleOptions == {StyleCasual, StyleY2K}

\* what the image picker answers: null when cancelled, or the asset's uri
PickerResults == {Null, Selfie}

\* String.prototype.trim on a sequence of characters
RECURSIVE trim(_)
trim(t) ==
  IF t = <<>> THEN t
  ELSE IF Head(t) = " " THEN trim(Tail(t))
  ELSE IF t[Len(t)] = " " THEN trim(SubSeq(t, 1, Len(t) - 1))
  ELSE t

\* String.prototype.split(','): the pieces between the commas, n + 1 of them
RECURSIVE split(_)
split(t) ==
  IF \A i \in 1..Len(t) : t[i] # ","
  THEN <<t>>
  ELSE LET c == CHOOSE i \in 1..Len(t) : t[i] = "," /\ \A j \in 1..(i - 1) : t[j] # ","
       IN <<SubSeq(t, 1, c - 1)>> \o split(SubSeq(t, c + 1, Len(t)))

\* brands.split(',').map((b) => b.trim()).filter(Boolean)
BrandsOf(text) ==
  LET pieces == split(text)
      trimmed == [i \in 1..Len(pieces) |-> trim(pieces[i])]
      NonEmpty(b) == b # <<>>
  IN SelectSeq(trimmed, NonEmpty)

\* gender === 'non-binary' ? '' : (gender ?? '')
GenderTag(gender) == IF gender \in {"non-binary", "null"} THEN "" ELSE gender

\* one keyword, `${brand} ${style} ${words} ${genderTag}`.trim(): the parts
\* of the template, an absent part being empty
Keyword(brand, style, words, gender) ==
  [brand |-> brand, style |-> style, words |-> words, genderTag |-> GenderTag(gender)]

\* the three loops of finish: brand x style, style only, brand only
KeywordsFor(brandList, styleList, gender) ==
  LET B == Len(brandList)
      S == Len(styleList)
  IN [k \in 1..(B * S) |->
        Keyword(brandList[((k - 1) \div S) + 1], styleList[((k - 1) % S) + 1],
                "outfit", gender)]
     \o [k \in 1..S |-> Keyword(<<>>, styleList[k], "outfit inspiration", gender)]
     \o [k \in 1..B |-> Keyword(brandList[k], <<>>, "outfit", gender)]

\* mutant: every step lets the user go on
canProceedAlways(w) == TRUE

\* canProceed
canProceed(w) ==
  IF w.step = 0 THEN w.gender # "null"
  ELSE IF w.step = 1 THEN Truthy(w.photoUri)
  ELSE IF w.step = 2 THEN Len(trim(w.brands)) > 0
  ELSE IF w.step = 3 THEN Len(w.selectedStyles) > 0
  ELSE TRUE

\* the Onboarding screen is mounted, at the first launch or from the
\* settings button of the feed
OnboardInit ==
  /\ profileFile \in {NoFile} \cup {FileOf(p) : p \in {q \in Profiles : Len(q.keywords) > 1}}
  /\ feedFile = NoFile
  /\ genFiles = 0
  /\ route = "/onboarding"
  /\ pc = "idle"
  /\ RunState
  /\ bridgeCall = BridgeIdle
  /\ styleCall = StyleIdle
  /\ ScreensIdle

onboardRest ==
  <<pipelineVars, bridgeCall, styleCall, likesFile, feedScreen, indexScreen, defaultProfile>>

\* step 0: a gender option is pressed
SetGender ==
  /\ route = "/onboarding"
  /\ wizard.step = 0
  /\ \E g \in GenderValues :
       /\ g # wizard.gender
       /\ wizard' = [wizard EXCEPT !.gender = g]
  /\ UNCHANGED onboardRest

\* step 1: pickPhoto / takePhoto; a cancelled picker leaves the photo alone
PickPhoto ==
  /\ route = "/onboarding"
  /\ wizard.step = 1
  /\ \E result \in PickerResults :
       wizard' = IF result = Null THEN wizard ELSE [wizard EXCEPT !.photoUri = result]
  /\ UNCHANGED onboardRest

\* step 2: onChangeText of the brands field
EditBrands ==
  /\ route = "/onboarding"
  /\ wizard.step = 2
  /\ \E text \in BrandTexts :
       /\ text # wizard.brands
       /\ wizard' = [wizard EXCEPT !.brands = text]
  /\ UNCHANGED onboardRest

\* step 3: toggleStyle
ToggleStyle ==
  /\ route = "/onboarding"
  /\ wizard.step = 3
  /\ \E st \in StyleOptions :
       LET NotIt(x) == x # st
           has == \E i \in 1..Len(wizard.selectedStyles) : wizard.selectedStyles[i] = st
       IN wizard' = [wizard EXCEPT !.selectedStyles =
                       IF has THEN SelectSeq(@, NotIt) ELSE Append(@, st)]
  /\ UNCHANGED onboardRest

\* the back button, shown from step 1 on
PressBack ==
  /\ route = "/onboarding"
  /\ wizard.step > 0
  /\ wizard' = [wizard EXCEPT !.step = @ - 1]
  /\ UNCHANGED onboardRest

\* the profile finish builds from the object getProfile returned
Finished(p, w) ==
  [p EXCEPT !.photoUri = w.photoUri,
            !.gender = w.gender,
            !.brands = BrandsOf(w.brands),
            !.styles = w.selectedStyles,
            !.keywords = KeywordsFor(BrandsOf(w.brands), w.selectedStyles, w.gender),
            !.onboarded = TRUE]

\* the next button: nothing unless canProceed(); the next step, or on the
\* last step finish(): the object getProfile returned is filled in (the
\* default object itself when there is no file), then saveProfile writes
\* it, and a throw of the write rejects finish before router.replace
PressNext ==
  /\ route = "/onboarding"
  /\ canProceed(wizard)
  /\ IF wizard.step < 3
     THEN /\ wizard' = [wizard EXCEPT !.step = @ + 1]
          /\ UNCHANGED <<profileFile, route, pc, defaultProfile>>
     ELSE LET p == Finished(getProfile(profileFile), wizard)
          IN /\ defaultProfile' = IF profileFile.exists THEN defaultProfile ELSE p
             /\ \E written \in BOOLEAN :
                  /\ wizard' = [wizard EXCEPT !.lastFinish =
                                  [made |-> TRUE, written |-> written,
                                   gender |-> wizard.gender, photoUri |-> wizard.photoUri,
                                   styles |-> wizard.selectedStyles]]
                  /\ IF written
                     THEN /\ profileFile' = FileOf(p)
                          /\ route' = "/generating"
                          /\ pc' = "start"
                     ELSE UNCHANGED <<profileFile, route, pc>>
  /\ UNCHANGED <<feedFile, genFiles, runVars, bridgeCall, styleCall, likesFile, feedScreen,
                 indexScreen>>

\* the wizard, and the head of the pipeline run the Generating screen starts
OnboardNext ==
  \/ SetGender
  \/ PickPhoto
  \/ EditBrands
  \/ ToggleStyle
  \/ PressBack
  \/ PressNext
  \/ RunPipelineStart

OnboardSpec == OnboardInit /\ [][OnboardNext]_vars

(* ---------------------------------------------------------------------- *)
(* The entry screen (Index of index.tsx) and the routes that follow it      *)
(* ---------------------------------------------------------------------- *)

\* the app is opened: no profile yet, or a profile saved by onboarding,
\* with or without a feed cached by an earlier run
AppInit ==
  /\ profileFile \in {NoFile} \cup {FileOf(p) : p \in {q \in Profiles : Len(q.keywords) > 0}}
  /\ \/ /\ feedFile = NoFile
        /\ genFiles = 0
     \/ /\ profileFile.exists
        /\ \E feed \in CachedFeeds :
             /\ Len(feed) = MaxFeed
             /\ feedFile = FileOf(feed)
             /\ genFiles = GeneratedIn(feed)
  /\ route = "/"
  /\ pc = "idle"
  /\ RunState
  /\ bridgeCall = BridgeIdle
  /\ styleCall = StyleIdle
  /\ ScreensIdle

\* mutant: an onboarded user always lands on the feed
IndexTargetFeed(onboarded, cached) ==
  IF ~onboarded THEN "/onboarding" ELSE "/feed"

\* the route the effect of Index replaces "/" by
IndexTarget(onboarded, cached) ==
  IF ~onboarded THEN "/onboarding"
  ELSE IF cached > 0 THEN "/feed"
  ELSE "/generating"

\* the effect of Index: getProfile, getCachedFeed, router.replace,
\* setChecking(false); the Generating screen starts its run when mounted
IndexRoute ==
  /\ route = "/"
  /\ indexScreen.checking
  /\ LET onboarded == getProfile(profileFile).onboarded
         cached == Len(getCachedFeed(feedFile))
         to == IndexTarget(onboarded, cached)
     IN /\ route' = to
        /\ pc' = IF to = "/generating" THEN "start" ELSE pc
        /\ indexScreen' = [checking |-> FALSE, onboarded |-> onboarded, cached |-> cached,
                           to |-> to]
  /\ UNCHANGED <<diskVars, runVars, bridgeCall, styleCall, likesFile, feedScreen, wizard,
                 defaultProfile>>

\* the routes taken with no user action: entry, pipeline run, feed
AppNext ==
  \/ IndexRoute
  \/ LoadFeed
  \/ Next

AppSpec == AppInit /\ [][AppNext]_vars

(* ---------------------------------------------------------------------- *)
(* Properties of the pipeline                                              *)
(* ---------------------------------------------------------------------- *)

\* a locator that is there: a non-empty string
Present(x) == x.kind = "string" /\ x.name # ""

\* the fallback image of an outfit, as the specification words it
FallbackOf(outfit) == IF Present(outfit.sourceUrl) THEN outfit.sourceUrl ELSE outfit.imageUrl

\* a generateWithImages call is in progress
InGenerate == pc \in {"generate", "awaitGemini"}

\* generateWithImages calls of this run that have returned a locator
GenSucceeded == genCalls - genNulls - (IF InGenerate THEN 1 ELSE 0)

\* the loop is over: every outfit has been processed
LoopOver == pc \in {"save", "done"} \/ (pc = "failed" /\ error = MsgPipelineError)

\* C1: a run that reaches Done has one post per outfit, and the i-th post
\* carries the caption and the products of the i-th outfit, whatever mix of
\* generated images, null results and exceptions the outfits met.
C1_OnePostPerOutfit ==
  pc = "done" =>
    /\ Len(posts) = Len(outfits)
    /\ \A i \in 1..Len(outfits) :
         /\ posts[i].captionHint = outfits[i].captionHint
         /\ posts[i].products = outfits[i].products

\* a finished run over two different outfits: the first got a generated
\* image, the second threw
C1_Witness ==
  /\ pc = "done"
  /\ Len(outfits) = 2
  /\ outfits[1].captionHint # outfits[2].captionHint
  /\ Len(posts[1].images) = 2
  /\ posts[2].id.suffix = FALSE

\* C2: every post has at least one image, when it is pushed and ever after.
C2_ImagesNonEmpty ==
  /\ \A i \in 1..Len(posts) : Len(posts[i].images) >= 1
  /\ feedFile.exists => \A i \in 1..Len(feedFile.data) : Len(feedFile.data[i].images) >= 1

\* a cached feed with a post of an outfit whose generation returned null and
\* a post of an outfit that threw
C2_Witness ==
  /\ feedFile.exists
  /\ Len(posts) = 2
  /\ genNulls = 1
  /\ posts[2].id.suffix = FALSE

\* C3: as long as no generateWithImages call of the run has succeeded, every
\* post holds exactly one image, the fallback: the outfit's sourceUrl when
\* present, else its imageUrl.
C3_AllFailedOneImage ==
  GenSucceeded = 0 =>
    \A i \in 1..Len(posts) : posts[i].images = <<FallbackOf(outfits[i])>>

\* a finished run of two outfits, one with and one without a sourceUrl, both
\* of which reached generateWithImages and got null
C3_Witness ==
  /\ pc = "done"
  /\ Len(outfits) = 2
  /\ genCalls = 2
  /\ genNulls = 2
  /\ Present(outfits[1].sourceUrl)
  /\ ~Present(outfits[2].sourceUrl)

\* the posts of a run all hold two images: a generated file, each its own,
\* then the fallback
AllTwoImages ==
  /\ \A i \in 1..Len(posts) :
       /\ Len(posts[i].images) = 2
       /\ posts[i].images[1].kind = "file"
       /\ posts[i].images[2] = FallbackOf(outfits[i])
  /\ \A i, j \in 1..Len(posts) : i # j => posts[i].images[1] # posts[j].images[1]

\* every outfit the bridge returned has a locator
WellFormedOutfits == \A i \in 1..Len(outfits) : Present(FallbackOf(outfits[i]))

\* C4 as stated: if no generateWithImages call of the run failed, every
\* post of the finished run holds two images, the generated one first
\* (read here for outfits that all have a locator).
C4_AsStated == (LoopOver /\ WellFormedOutfits /\ genNulls = 0) => AllTwoImages

\* C4, amended: if generateWithImages was called for every outfit (both
\* images loaded, nothing threw) and no call failed, every post holds
\* exactly two images, the generated one first.
C4_AllSucceededTwoImages ==
  (LoopOver /\ genCalls = Len(outfits) /\ genNulls = 0) => AllTwoImages

\* a finished run of two outfits, both generated
C4_Witness ==
  /\ pc = "done"
  /\ Len(outfits) = 2
  /\ genCalls = 2
  /\ genNulls = 0

\* C5: the values passed to setProgress increase strictly, progress is the
\* latest of them, and 1.0 is passed only as the last of them, after every
\* outfit has been processed.
C5_ProgressMonotonic ==
  /\ \A i, j \in 1..Len(progressLog) : i < j => progressLog[i] < progressLog[j]
  /\ progress = (IF progressLog = <<>> THEN 0 ELSE progressLog[Len(progressLog)])
  /\ progress <= Percent(100)
  /\ \A i \in 1..Len(progressLog) :
       progressLog[i] = Percent(100) =>
         /\ i = Len(progressLog)
         /\ LoopOver /\ pc # "save"
         /\ Len(outfits) > 0
         /\ done = Len(outfits)
         /\ Len(posts) = Len(outfits)

\* a finished run of two outfits: 0.05, 0.15, 0.55, 0.95, 1
C5_Witness ==
  /\ pc = "done"
  /\ progressLog = <<Percent(5), Percent(15), Percent(55), Percent(95), Percent(100)>>

\* C6: a run whose profile has no photo ends in the error state with the
\* missing-photo message, no post, no write of the feed cache, and no call
\* of searchPinterest.
C6_NoPhotoAborts ==
  (pc # "start" /\ ~Present(profile.photoUri)) =>
    /\ pc = "failed"
    /\ error = MsgNoPhoto
    /\ posts = <<>>
    /\ cacheWrites = 0
    /\ feedFile = NoFile
    /\ searchCalls = 0
    /\ ~searchArgs.called

\* the run of a profile without a photo, stopped by the photo check
C6_Witness ==
  /\ pc = "failed"
  /\ error = MsgNoPhoto
  /\ ~Present(profile.photoUri)

\* C7: a run whose discovery returns no outfit ends in the error state with
\* a message of its own, no post, and no call of generateTryOn or
\* generateWithImages (no request to the generation service).
C7_NoOutfitsAborts ==
  (pc \notin {"start", "search"} /\ Present(profile.photoUri) /\ Len(outfits) = 0) =>
    /\ pc = "failed"
    /\ error = MsgNoOutfits
    /\ error # MsgNoPhoto
    /\ posts = <<>>
    /\ cacheWrites = 0
    /\ tryOnCalls = 0
    /\ genCalls = 0
    /\ genRequests = 0

\* the run of a profile with a photo whose one searchPinterest call found nothing
C7_Witness ==
  /\ pc = "failed"
  /\ Present(profile.photoUri)
  /\ searchCalls = 1
  /\ outfits = <<>>

\* C8 as stated: a run is in the error state only by the photo check or the
\* empty-list check; once the loop has started nothing ends it in error
\* (read here for outfits that all have a locator).
C8_OnlyValidateDiscoverFail ==
  (pc = "failed" /\ WellFormedOutfits) =>
    (error \in {MsgNoPhoto, MsgNoOutfits} /\ posts = <<>>)

\* the latest response of the generateWithImages call is a transient
\* failure: a non-OK status that is 429 or 500 and above
TransientStatus ==
  /\ lastRes.type = "http"
  /\ ~(lastRes.status >= 200 /\ lastRes.status <= 299)
  /\ (lastRes.status = 429 \/ lastRes.status >= 500)

\* C9: one generateWithImages call sends at most 1 + MAX_RETRIES requests;
\* after a 429 or 5xx response the call goes on to the next attempt while
\* retries remain, and returns null when the last attempt got it.
C9_RetryBudget ==
  /\ genRequests <= 1 + MAX_RETRIES
  /\ 1 + MAX_RETRIES = 3
  /\ TransientStatus =>
       IF genRequests <= MAX_RETRIES
       THEN pc = "generate" /\ attempt = genRequests
       ELSE ~InGenerate /\ genResult = Null /\ Len(posts[done].images) = 1

\* the third request of a call answered 429, and the call over
C9_Witness ==
  /\ genRequests = 3
  /\ TransientStatus
  /\ lastRes.status = 429
  /\ ~InGenerate
  /\ genNulls = 1

\* the latest response of the generateWithImages call is a failure that is
\* not transient: a non-OK status other than 429 and below 500, a 200 with
\* no candidates, or a 200 whose candidates hold no image part
NonTransientFailure ==
  /\ lastRes.type = "http"
  /\ IF ~(lastRes.status >= 200 /\ lastRes.status <= 299)
     THEN lastRes.status # 429 /\ lastRes.status < 500
     ELSE /\ "error" \notin DOMAIN lastRes.json
          /\ \/ "candidates" \notin DOMAIN lastRes.json
             \/ lastRes.json.candidates = <<>>
             \/ \A i \in 1..Len(lastRes.json.candidates) :
                  \A j \in 1..Len(lastRes.json.candidates[i]) :
                    LET part == lastRes.json.candidates[i][j]
                    IN "inlineData" \notin DOMAIN part \/ part.inlineData = ""

\* C10: after a failure that is not transient the call is over with null,
\* whatever the number of attempts left: the failing request was its last.
C10_NoRetryOnTerminal ==
  NonTransientFailure =>
    /\ ~InGenerate
    /\ genResult = Null
    /\ genWritten = ""
    /\ attempt = genRequests - 1
    /\ Len(posts[done].images) = 1

\* a 400 on the first attempt, with both retries left, ended the call
C10_Witness ==
  /\ NonTransientFailure
  /\ lastRes.status = 400
  /\ genRequests = 1
  /\ attempt < MAX_RETRIES
  /\ genNulls = 1

\* an image that was loaded
Loaded(img) == img.kind = "image"

\* C11: the latest generateTryOn call has called generateWithImages (and so
\* sent a request) only with both images loaded; a call whose base image
\* could not be read has returned null without downloading the reference
\* image and without generateWithImages, and a call whose reference image
\* could not be downloaded has returned null without generateWithImages.
C11_FailFast ==
  tryOnCalls > 0 =>
    /\ (pc = "fetchOutfit" => tryOn.active /\ Loaded(tryOn.userImg))
    /\ (InGenerate => tryOn.active /\ tryOn.generate)
    /\ (inFlight > 0 => InGenerate)
    /\ (tryOn.generate => Loaded(tryOn.userImg) /\ Loaded(tryOn.outfitImg))
    /\ (tryOn.userImg = Null =>
          /\ ~tryOn.active
          /\ tryOn.result = Null
          /\ tryOn.outfitImg = Undefined
          /\ ~tryOn.generate)
    /\ (tryOn.outfitImg = Null =>
          /\ ~tryOn.active
          /\ tryOn.result = Null
          /\ ~tryOn.generate)

\* the second generateTryOn call of a run could not read the base image,
\* after a first call that got as far as generateWithImages
C11_Witness ==
  /\ tryOnCalls = 2
  /\ genCalls = 1
  /\ tryOn.userImg = Null
  /\ Len(posts) = 2
  /\ Len(posts[2].images) = 1

\* part j of candidate i of the latest response holds inline image data
HoldsImage(i, j) ==
  LET part == lastRes.json.candidates[i][j]
  IN "inlineData" \in DOMAIN part /\ part.inlineData # ""

\* the latest response is an OK response with an image part somewhere
OkWithImage ==
  /\ lastRes.type = "http"
  /\ lastRes.status >= 200 /\ lastRes.status <= 299
  /\ "candidates" \in DOMAIN lastRes.json
  /\ \E i \in 1..Len(lastRes.json.candidates) :
       \E j \in 1..Len(lastRes.json.candidates[i]) : HoldsImage(i, j)

\* (i, j) is the first image part: no image part in an earlier candidate,
\* nor earlier in candidate i
FirstInScan(i, j) ==
  /\ HoldsImage(i, j)
  /\ \A k \in 1..(i - 1) : \A l \in 1..Len(lastRes.json.candidates[k]) : ~HoldsImage(k, l)
  /\ \A l \in 1..(j - 1) : ~HoldsImage(i, l)

\* C12: on an OK response with an image part, the part generateWithImages
\* decodes and writes is the first one in scan order (candidates in order,
\* parts in order within each), whichever candidate holds it; with the file
\* written the call returns the locator of that file and a post shows it
\* first, and only a failed write leaves the attempt without a result.
C12_FirstImageInOrder ==
  OkWithImage =>
    /\ genWrite.attempted
    /\ \A i \in 1..Len(lastRes.json.candidates) :
         \A j \in 1..Len(lastRes.json.candidates[i]) :
           FirstInScan(i, j) => genWrite.data = lastRes.json.candidates[i][j].inlineData
    /\ IF genWrite.ok
       THEN /\ ~InGenerate
            /\ genResult.kind = "file"
            /\ genWritten = genWrite.data
            /\ tryOn.generate => tryOn.result = genResult
            /\ \E i \in 1..Len(posts) : posts[i].images[1] = genResult
       ELSE genResult = Null

\* the first candidate held only text and the second an image: the call
\* returned the file with the second candidate's image
C12_Witness ==
  /\ OkWithImage
  /\ Len(lastRes.json.candidates) = 2
  /\ ~HoldsImage(1, 1)
  /\ Len(lastRes.json.candidates[1]) = 1
  /\ genResult.kind = "file"
  /\ genWritten = lastRes.json.candidates[2][1].inlineData

\* an outfit is being processed: generateTryOn is in progress
InTryOn == pc \in {"readPhoto", "fetchOutfit", "generate", "awaitGemini"}

\* C15: at most one request to the generation service awaits its response,
\* and while candidate done + 1 is being processed (its image loads, its
\* requests) the posts of the candidates before it, and no other, have been
\* pushed and the counter and the progress of the last of them set; no
\* generateTryOn call has started for a later candidate.
C15_OneAtATime ==
  /\ inFlight \in {0, 1}
  /\ inFlight = 1 <=> pc = "awaitGemini"
  /\ tryOnCalls <= Len(posts) + (IF InTryOn THEN 1 ELSE 0)
  /\ genCalls <= tryOnCalls
  /\ InTryOn =>
       /\ tryOn.active
       /\ done < Len(outfits)
       /\ Len(posts) = done
       /\ completed = done
       /\ progress = Percent(15) + (done * Percent(80)) \div Len(outfits)
       /\ tryOn.outfitDescription = outfits[done + 1].captionHint
       /\ tryOn.outfitImageUrl = FallbackOf(outfits[done + 1])

\* the request for the second candidate is out, after the first candidate
\* went through generation and its post was pushed
C15_Witness ==
  /\ pc = "awaitGemini"
  /\ inFlight = 1
  /\ done = 1
  /\ Len(posts) = 1
  /\ genCalls = 2

\* C16 as stated: every run comes to an end, Done or an error state; it
\* does not stay in Discover or Compose for ever.
C16_Terminates == <>(pc \in {"done", "failed"})

\* C19: cacheFeed is called at most once in a run, and only when the loop
\* is over and every outfit has its post; the file it wrote holds the whole
\* post list in order, and a run that has reached Done has written it; a
\* run stopped by the photo check or the empty-list check has not called it
\* and has left no feed file.
C19_CacheOnceAtEnd ==
  /\ cacheWrites \in {0, 1}
  /\ cacheWrites = 1 =>
       /\ LoopOver /\ pc # "save"
       /\ done = Len(outfits)
       /\ Len(posts) = Len(outfits)
  /\ feedFile.exists =>
       /\ cacheWrites = 1
       /\ pc = "done"
       /\ feedFile.data = posts
  /\ pc = "done" => cacheWrites = 1 /\ feedFile.exists
  /\ (pc = "failed" /\ error \in {MsgNoPhoto, MsgNoOutfits}) =>
       cacheWrites = 0 /\ feedFile = NoFile

\* a run of two outfits is done, its two posts cached by the one call
C19_Witness ==
  /\ pc = "done"
  /\ cacheWrites = 1
  /\ Len(posts) = 2
  /\ feedFile.exists
  /\ Len(feedFile.data) = 2

\* C21 as stated: every post starts not liked, with no comments and a
\* comment count of zero; only its like count is seeded, with 50 or more.
C21_ZeroCommentState ==
  \A i \in 1..Len(posts) :
    /\ posts[i].liked = FALSE
    /\ posts[i].comments = <<>>
    /\ posts[i].commentCount = 0
    /\ posts[i].likeCount >= 50

\* outfits up to and with the one in progress
Started == 1..(done + (IF InTryOn THEN 1 ELSE 0))

C23_LinearBackoff ==
  /\ RETRY_DELAY_MS = 2000
  /\ genRequests <= 1 => genDelays = <<>>
  /\ genRequests >= 1 => Len(genDelays) = genRequests - 1
  /\ Len(genDelays) <= 2
  /\ \A k \in 1..Len(genDelays) : genDelays[k] = k * 2000
  /\ \A k \in 1..(Len(genDelays) - 1) : genDelays[k] < genDelays[k + 1]
  /\ (IF Len(genDelays) = 0 THEN 0
      ELSE IF Len(genDelays) = 1 THEN genDelays[1]
      ELSE genDelays[1] + genDelays[2]) <= 6000

\* a call that has sent its third request, after 2000 and 4000 ms
C23_Witness ==
  /\ genRequests = 3
  /\ genDelays = <<2000, 4000>>

\* the latest attempt threw: fetch rejected, res.json() could not parse the
\* body, or the write of the decoded file failed
AttemptThrew ==
  \/ lastRes.type = "throw"
  \/ /\ lastRes.type = "http"
     /\ lastRes.status = 200
     /\ "error" \in DOMAIN lastRes.json
  \/ genWrite.attempted /\ ~genWrite.ok

\* C24: an attempt that threw is followed by the next attempt while
\* retries remain, and by the return of null when it was the last; the
\* call never sends more than three requests.
C24_ExceptionsContained ==
  /\ genRequests <= 3
  /\ pc \in {"start", "search", "compose", "readPhoto", "fetchOutfit", "generate",
              "awaitGemini", "save", "done", "failed"}
  /\ AttemptThrew =>
       IF genRequests <= MAX_RETRIES
       THEN pc = "generate" /\ attempt = genRequests
       ELSE /\ ~InGenerate
            /\ genResult = Null
            /\ genRequests = 3
            /\ \E i \in 1..Len(posts) : Len(posts[i].images) = 1

\* the write of the file failed on the third attempt of a call, and the
\* call returned null
C24_Witness ==
  /\ genRequests = 3
  /\ genWrite.attempted
  /\ ~genWrite.ok
  /\ ~InGenerate
  /\ genNulls = 1
  /\ genResult = Null

(* ---------------------------------------------------------------------- *)
(* Properties of searchPinterest                                            *)
(* ---------------------------------------------------------------------- *)

\* C13: a searchPinterest call sends one request and never more, it ends
\* only by returning, and what it returns after a rejected fetch (network
\* failure or the abort of the timer) or a non-success status is the empty
\* list.
C13_ReturnsEmptyOnFailure ==
  /\ bridgeCall.pc \in {"idle", "fetching", "body", "returned"}
  /\ bridgeCall.pc # "idle" => bridgeCall.requests = 1
  /\ bridgeCall.pc = "returned" =>
       /\ bridgeCall.by \in {"abort", "network", "status", "body"}
       /\ bridgeCall.by \in {"abort", "network"} => bridgeCall.result = <<>>
       /\ bridgeCall.by \in {"status", "body"} =>
            (~(bridgeCall.status >= 200 /\ bridgeCall.status <= 299) =>
               bridgeCall.result = <<>>)
       /\ bridgeCall.by = "status" => bridgeCall.result = <<>>

\* a call answered 500 has returned the empty list after its one request
C13_Witness ==
  /\ bridgeCall.pc = "returned"
  /\ bridgeCall.by = "status"
  /\ bridgeCall.status = 500
  /\ bridgeCall.requests = 1
  /\ bridgeCall.result = <<>>

\* C14: while the request of a call is out no more time has passed than
\* the call's timeout, 30 s without fresh and 120 s with it; a call that
\* the timer ended did so at that time and returned the empty list; and no
\* call stays with its request out for ever: without an answer from the
\* bridge the timer ends it.
C14_TimeoutEndsFetch ==
  /\ [](bridgeCall.pc = "fetching" =>
          /\ bridgeCall.timeoutMs = (IF bridgeCall.fresh THEN 120000 ELSE 30000)
          /\ bridgeCall.clock <= bridgeCall.timeoutMs)
  /\ []((bridgeCall.pc = "returned" /\ bridgeCall.by = "abort") =>
          /\ bridgeCall.clock = (IF bridgeCall.fresh THEN 120000 ELSE 30000)
          /\ bridgeCall.result = <<>>)
  /\ ((bridgeCall.pc = "fetching") ~> (bridgeCall.pc # "fetching"))

\* a call without fresh that got no answer has returned the empty list
\* after 30 s; the same with fresh after 120 s is C14_Witness with the
\* other timeout
C14_Witness ==
  /\ bridgeCall.pc = "returned"
  /\ bridgeCall.by = "abort"
  /\ ~bridgeCall.fresh
  /\ bridgeCall.clock = 30000
  /\ bridgeCall.result = <<>>

\* C20 as stated: the list a searchPinterest call returns, whose length
\* runPipeline takes as the number of outfits to process and as the total
\* it reports, is never longer than the limit the call asked for.
C20_WithinFetchLimit ==
  bridgeCall.pc = "returned" =>
    /\ bridgeCall.limit = PINTEREST_FETCH_LIMIT
    /\ Len(bridgeCall.result) <= PINTEREST_FETCH_LIMIT

(* ---------------------------------------------------------------------- *)
(* Properties of the style selection                                        *)
(* ---------------------------------------------------------------------- *)

\* a character in lower case
Lower(c) == IF c \in DOMAIN UpperToLower THEN UpperToLower[c] ELSE c

\* the tag occurs in the caption at some offset, letter case apart
OccursIn(tag, caption) ==
  \E k \in 0..(Len(caption) - Len(tag)) :
    \A j \in 1..Len(tag) : Lower(caption[k + j]) = Lower(tag[j])

\* C17: the style hint is the first tag, in the profile's order, that
\* occurs in the caption (letter case apart); the profile's first tag when
\* none occurs; and none (null) when the profile has no tags.
C17_StyleHint ==
  styleCall.pc = "selected" =>
    LET styles == styleCall.styles
        M == {i \in 1..Len(styles) : OccursIn(styles[i], styleCall.caption)}
    IN styleCall.hint =
         (IF M # {} THEN <<styles[CHOOSE i \in M : \A j \in M : i <= j]>>
          ELSE IF Len(styles) > 0 THEN <<styles[1]>>
          ELSE <<>>)

\* tags Casual, Y2K and the caption "cool y2k fit": the second tag, the one
\* that occurs in the caption, was selected
C17_Witness ==
  /\ styleCall.pc = "selected"
  /\ styleCall.styles = <<StyleCasual, StyleY2K>>
  /\ styleCall.caption = CaptionY2K
  /\ styleCall.hint = <<StyleY2K>>

\* tags Streetwear, Y2K and the caption "best y2k streetwear look"
ScenarioStreetwearY2K ==
  /\ styleCall.pc = "selected"
  /\ styleCall.styles = <<StyleStreetwear, StyleY2K>>
  /\ styleCall.caption = CaptionBestY2K

\* C18 as stated: in that scenario the selected tag is Y2K.
C18_SelectsY2K == ScenarioStreetwearY2K => styleCall.hint = <<StyleY2K>>

\* C18, amended: in that scenario the selected tag is Streetwear, the first
\* tag of the profile that occurs in the caption; with the tags in the order
\* Y2K, Streetwear and the same caption it is Y2K.
C18_SelectsFirstTagInProfileOrder ==
  /\ ScenarioStreetwearY2K => styleCall.hint = <<StyleStreetwear>>
  /\ (/\ styleCall.pc = "selected"
      /\ styleCall.styles = <<StyleY2K, StyleStreetwear>>
      /\ styleCall.caption = CaptionBestY2K) => styleCall.hint = <<StyleY2K>>

\* the scenario, with Streetwear selected
C18_Witness == ScenarioStreetwearY2K /\ styleCall.hint = <<StyleStreetwear>>

(* ---------------------------------------------------------------------- *)
(* Properties of the Feed screen                                            *)
(* ---------------------------------------------------------------------- *)

\* C25 as stated: a press of the like button of the post at index i toggles
\* the like of posts[i] and changes the like count of posts[i] and of no
\* other post, whatever the active index was when the button was pressed.
C25_LikeHitsPressedPost ==
  feedScreen.lastLike.made =>
    /\ feedScreen.lastLike.toggled = feedScreen.posts[feedScreen.lastLike.pressed + 1].id
    /\ feedScreen.lastLike.counted = {feedScreen.lastLike.pressed + 1}

\* the like count feed.json holds for the k-th post
SeedCount(k) == getCachedFeed(feedFile)[k].likeCount

\* C26 as stated: after any sequence of like presses and reloads of the
\* feed, the like count shown for a post is its cached count plus one if
\* the post is shown as liked, and is never below the cached count.
C26_CountFollowsLike ==
  feedScreen.mounted =>
    \A k \in 1..Len(feedScreen.posts) :
      /\ feedScreen.posts[k].likeCount =
           SeedCount(k) + (IF feedScreen.posts[k].id \in feedScreen.likes THEN 1 ELSE 0)
      /\ feedScreen.posts[k].likeCount >= SeedCount(k)

\* the Pinterest image of the k-th post: the last image runPipeline gave it
OriginalImage(k) ==
  getCachedFeed(feedFile)[k].images[Len(getCachedFeed(feedFile)[k].images)]

\* C27 as stated: every on-demand try-on hands generateTryOn the Pinterest
\* image of the post as the outfit reference, however many try-ons have
\* succeeded on the post before.
C27_ReferenceIsSource ==
  feedScreen.lastTryOn.made =>
    feedScreen.lastTryOn.ref = OriginalImage(feedScreen.lastTryOn.post + 1)

(* ---------------------------------------------------------------------- *)
(* Properties of the Onboarding screen and of getProfile                    *)
(* ---------------------------------------------------------------------- *)

C30_DefaultStaysPristine ==
  ~profileFile.exists => getProfile(profileFile) = DEFAULT_PROFILE

(* ---------------------------------------------------------------------- *)
(* Properties of the routing                                                *)
(* ---------------------------------------------------------------------- *)

\* the routes in the order the app may take them by itself
RouteRank(r) ==
  IF r = "/" THEN 0
  ELSE IF r \in {"/onboarding", "/generating"} THEN 1
  ELSE 2

\* what holds of the routing in every state
RoutingState ==
  /\ ~indexScreen.checking =>
       /\ (indexScreen.to = "/onboarding") <=> ~getProfile(profileFile).onboarded
       /\ (indexScreen.to = "/feed") <=>
            (getProfile(profileFile).onboarded /\ indexScreen.cached > 0)
       /\ (indexScreen.to = "/generating") <=>
            (getProfile(profileFile).onboarded /\ indexScreen.cached = 0)
       /\ indexScreen.to = "/feed" => Len(getCachedFeed(feedFile)) > 0
       /\ route = "/onboarding" <=> indexScreen.to = "/onboarding"
  /\ feedScreen.redirectedFrom = "none"
  /\ route = "/feed" =>
       /\ Len(getCachedFeed(feedFile)) > 0
       /\ indexScreen.to = "/generating" => pc = "done"
       /\ feedScreen.mounted => feedScreen.posts = getCachedFeed(feedFile)

====
